---- MODULE Spec2Model ----
(***************************************************************************)
(* Upload-initiation service of Mediacorp_backend: UploadService           *)
(* (src/services/upload_service.py) over UploadRepository                  *)
(* (src/repositories/upload_repository.py), the S3 gateway functions       *)
(* (src/services/s3_service.py) and the validators                         *)
(* (src/utils/validators.py).                                              *)
(*                                                                         *)
(* Conventions.                                                            *)
(*  - Optional[T] is a set: {} is None, {x} is a value x.                  *)
(*  - A byte count is a pair [mib, b] = mib * 2^20 + b with 0 <= b < 2^20  *)
(*    (Python ints are unbounded; 10 GiB does not fit TLC's 32-bit ints).  *)
(*  - A filename is a sequence of one-character strings.                   *)
(*  - uuid.uuid4() is a fresh-identifier source: the n-th call returns n.  *)
(*  - The timestamp columns (created_at, updated_at, completed_at), the   *)
(*    columns the service never writes and the opaque processing_config    *)
(*    are not modelled.                                                    *)
(***************************************************************************)
EXTENDS Integers, Sequences, FiniteSets, Bags, TLC

VARIABLES
    records,      \* content_inventory: content_id -> row
    components,   \* component_status: set of rows
    sessions,     \* the object store's multipart sessions: n -> [bucket, key, state]
    uuidCalls,    \* number of uuid.uuid4() calls made so far
    inflight,     \* bag of the complete calls between their store call and their status write
    bulk,         \* the initiate_bulk_upload calls in their loop, and the last one that ended
    checked,      \* the last call of a validator: its arguments and its result
    settings,     \* core.config.settings, built once at start-up from the environment
    last          \* the last handler step: its call, its gateway calls, its outcome

vars == <<records, components, sessions, uuidCalls, inflight, bulk, checked, settings, last>>

(***************************************************************************)
(* Bounds of the model.                                                    *)
(***************************************************************************)
MaxUploads == 2          \* initiate calls that reach uuid.uuid4()
MaxInflight == 2         \* complete calls in progress at the same time
MaxBulk == 2             \* initiate_bulk_upload calls in progress at the same time

(***************************************************************************)
(* Byte counts.                                                            *)
(***************************************************************************)
MiBBytes == 1024 * 1024

Bytes(m, r) == [mib |-> m, b |-> r]

SizeLT(x, y) == x.mib < y.mib \/ (x.mib = y.mib /\ x.b < y.b)
SizeGT(x, y) == SizeLT(y, x)
SizeGE(x, y) == ~SizeLT(x, y)

\* x - 1 and x + 1 bytes
Pred(x) == IF x.b = 0 THEN Bytes(x.mib - 1, MiBBytes - 1) ELSE Bytes(x.mib, x.b - 1)
Succ(x) == IF x.b = MiBBytes - 1 THEN Bytes(x.mib + 1, 0) ELSE Bytes(x.mib, x.b + 1)

(***************************************************************************)
(* Configuration (src/core/config.py).                                     *)
(***************************************************************************)
S3_BUCKET == "mdm-content-dev"
PRESIGNED_URL_EXPIRY == 3600
DEFAULT_EXPIRATION == 3600     \* the gateway functions' expiration default

(***************************************************************************)
(* Validators (src/utils/validators.py).                                   *)
(***************************************************************************)
UpperToLower ==
    [c \in {"A","B","C","D","E","F","G","H","I","J","K","L","M",
            "N","O","P","Q","R","S","T","U","V","W","X","Y","Z"} |->
      CASE c = "A" -> "a" [] c = "B" -> "b" [] c = "C" -> "c" [] c = "D" -> "d"
        [] c = "E" -> "e" [] c = "F" -> "f" [] c = "G" -> "g" [] c = "H" -> "h"
        [] c = "I" -> "i" [] c = "J" -> "j" [] c = "K" -> "k" [] c = "L" -> "l"
        [] c = "M" -> "m" [] c = "N" -> "n" [] c = "O" -> "o" [] c = "P" -> "p"
        [] c = "Q" -> "q" [] c = "R" -> "r" [] c = "S" -> "s" [] c = "T" -> "t"
        [] c = "U" -> "u" [] c = "V" -> "v" [] c = "W" -> "w" [] c = "X" -> "x"
        [] c = "Y" -> "y" [] c = "Z" -> "z"]

\* str.lower()
Lower(s) == [i \in 1..Len(s) |-> IF s[i] \in DOMAIN UpperToLower THEN UpperToLower[s[i]] ELSE s[i]]

\* str.rfind(ch), 1-based; 0 when ch does not occur
RFind(s, ch) ==
    LET hits == {i \in 1..Len(s) : s[i] = ch}
    IN  IF hits = {} THEN 0 ELSE CHOOSE i \in hits : \A j \in hits : j <= i

\* the path without what the parser drops at its end: empty and "." components
RECURSIVE PathStripped(_)
PathStripped(s) ==
    IF s = <<".">>
    THEN <<>>
    ELSE IF Len(s) >= 1 /\ s[Len(s)] = "/"
    THEN PathStripped(SubSeq(s, 1, Len(s) - 1))
    ELSE IF Len(s) >= 2 /\ s[Len(s) - 1] = "/" /\ s[Len(s)] = "."
    THEN PathStripped(SubSeq(s, 1, Len(s) - 2))
    ELSE s

\* PurePath.name: the final path component
PathName(s) ==
    LET t == PathStripped(s)
    IN  SubSeq(t, RFind(t, "/") + 1, Len(t))

\* PurePath.suffix: the final component's last dot and what follows it, when the
\* dot is neither the first nor the last character of the component
PathSuffix(s) ==
    LET name == PathName(s)
        j    == RFind(name, ".")
    IN  IF 1 < j /\ j < Len(name) THEN SubSeq(name, j, Len(name)) ELSE <<>>

\* the dict in insertion order, as validate_file_type iterates over it
SUPPORTED_TYPES ==
    << [category   |-> "video",
        extensions |-> {<<".","m","p","4">>, <<".","m","o","v">>,
                        <<".","a","v","i">>, <<".","m","k","v">>}],
       [category   |-> "audio",
        extensions |-> {<<".","m","p","3">>, <<".","w","a","v">>,
                        <<".","m","4","a">>, <<".","f","l","a","c">>}],
       [category   |-> "image",
        extensions |-> {<<".","j","p","g">>, <<".","j","p","e","g">>, <<".","p","n","g">>,
                        <<".","w","e","b","p">>, <<".","t","i","f","f">>}],
       [category   |-> "text",
        extensions |-> {<<".","t","x","t">>, <<".","m","d">>,
                        <<".","h","t","m","l">>, <<".","j","s","o","n">>}] >>

MAX_FILE_SIZES ==
    [video |-> Bytes(10 * 1024, 0),   \* 10 GB
     audio |-> Bytes(2 * 1024, 0),    \* 2 GB
     image |-> Bytes(100, 0),         \* 100 MB
     text  |-> Bytes(500, 0)]         \* 500 MB

GLOBAL_MAX == Bytes(10 * 1024, 0)

NoError == [type |-> "", msg |-> "", ext |-> <<>>]
ValueError(m, e) == [type |-> "ValueError", msg |-> m, ext |-> e]
OtherError(m) == [type |-> "Exception", msg |-> m, ext |-> <<>>]

\* mutant: the extension is compared as written
validate_file_type_caseSensitive(filename) ==
    LET ext  == PathSuffix(filename)
        hits == {i \in 1..Len(SUPPORTED_TYPES) : ext \in SUPPORTED_TYPES[i].extensions}
    IN  IF hits # {}
        THEN [category |-> SUPPORTED_TYPES[CHOOSE i \in hits : \A j \in hits : i <= j].category,
              error    |-> NoError]
        ELSE [category |-> "", error |-> ValueError("Unsupported file type", ext)]

\* returns the category, or raises ValueError naming the extension
validate_file_type(filename) ==
    LET ext  == Lower(PathSuffix(filename))
        hits == {i \in 1..Len(SUPPORTED_TYPES) : ext \in SUPPORTED_TYPES[i].extensions}
    IN  IF hits # {}
        THEN [category |-> SUPPORTED_TYPES[CHOOSE i \in hits : \A j \in hits : i <= j].category,
              error    |-> NoError]
        ELSE [category |-> "", error |-> ValueError("Unsupported file type", ext)]

\* mutant: a size equal to the ceiling is refused
validate_file_size_strict(file_size, category) ==
    LET max_size == IF category \in DOMAIN MAX_FILE_SIZES
                    THEN MAX_FILE_SIZES[category] ELSE MAX_FILE_SIZES["video"]
    IN  IF category # "" /\ SizeGE(file_size, max_size)
        THEN ValueError("File size exceeds limit for category", <<>>)
        ELSE IF SizeGE(file_size, GLOBAL_MAX)
        THEN ValueError("File size exceeds global limit of 10 GB", <<>>)
        ELSE NoError

\* returns NoError, or the ValueError it raises
validate_file_size(file_size, category) ==
    LET max_size == IF category \in DOMAIN MAX_FILE_SIZES
                    THEN MAX_FILE_SIZES[category] ELSE MAX_FILE_SIZES["video"]
    IN  IF category # "" /\ SizeGT(file_size, max_size)
        THEN ValueError("File size exceeds limit for category", <<>>)
        ELSE IF SizeGT(file_size, GLOBAL_MAX)
        THEN ValueError("File size exceeds global limit of 10 GB", <<>>)
        ELSE NoError

(***************************************************************************)
(* Object store gateway (src/services/s3_service.py).  Each operator       *)
(* returns the function's result or the exception it raises, the store's   *)
(* sessions afterwards and the client calls it made.  `up` is the          *)
(* environment's answer: FALSE when the client call raises (credentials,   *)
(* transport, or the store's rejection).                                   *)
(***************************************************************************)
MULTIPART_THRESHOLD == Bytes(100, 0)     \* 100 * 1024 * 1024

UploadId(n) == [kind |-> "upload_id", n |-> n]

PresignedUrl(operation, bucket, object_key, content_type, upload_id, part_number, expiration) ==
    [kind |-> "url", operation |-> operation, bucket |-> bucket, object_key |-> object_key,
     content_type |-> content_type, upload_id |-> upload_id, part_number |-> part_number,
     expires_in |-> expiration]

GatewayResult(error, result, store, calls) ==
    [error |-> error, result |-> result, sessions |-> store, calls |-> calls]

\* mutant: an identifier is returned for a session the store has not opened
initiate_multipart_upload_notOpened(store, bucket, object_key, content_type, up) ==
    IF up
    THEN GatewayResult(NoError, {UploadId(Len(store) + 1)}, store,
                       <<"create_multipart_upload">>)
    ELSE GatewayResult(OtherError("create_multipart_upload failed"), {}, store,
                       <<"create_multipart_upload">>)

\* client.create_multipart_upload: the store opens a session and names it
initiate_multipart_upload(store, bucket, object_key, content_type, up) ==
    IF up
    THEN GatewayResult(NoError, {UploadId(Len(store) + 1)},
                       Append(store, [bucket |-> bucket, object_key |-> object_key,
                                      content_type |-> content_type, state |-> "open"]),
                       <<"create_multipart_upload">>)
    ELSE GatewayResult(OtherError("create_multipart_upload failed"), {}, store,
                       <<"create_multipart_upload">>)

\* mutant: the gateway opens a session only above the threshold
GatewaySinglePut_inclusive(file_size) == ~SizeGT(file_size, MULTIPART_THRESHOLD)

\* the branch of generate_presigned_url: single PUT below the threshold
GatewaySinglePut(file_size) == SizeLT(file_size, MULTIPART_THRESHOLD)

generate_presigned_url(store, bucket, object_key, file_size, content_type, expiration, up) ==
    IF GatewaySinglePut(file_size)
    THEN IF up
         THEN GatewayResult(NoError,
                            {PresignedUrl("put_object", bucket, object_key, content_type,
                                          {}, 0, expiration)},
                            store, <<"generate_presigned_url:put_object">>)
         ELSE GatewayResult(OtherError("generate_presigned_url failed"), {}, store,
                            <<"generate_presigned_url:put_object">>)
    ELSE initiate_multipart_upload(store, bucket, object_key, content_type, up)

generate_part_presigned_url(store, bucket, object_key, upload_id, part_number, expiration, up) ==
    IF up
    THEN GatewayResult(NoError,
                       {PresignedUrl("upload_part", bucket, object_key, "",
                                     upload_id, part_number, expiration)},
                       store, <<"generate_presigned_url:upload_part">>)
    ELSE GatewayResult(OtherError("generate_presigned_url failed"), {}, store,
                       <<"generate_presigned_url:upload_part">>)

\* The store accepts a completion only for a session (upload_id, None when empty)
\* it opened for that bucket and key and has not aborted; whether the part list is acceptable, and whether a
\* completion is replayed for a session already completed, is the store's answer.
StoreKnows(store, bucket, object_key, upload_id) ==
    \E u \in upload_id :
        /\ u.kind = "upload_id"
        /\ u.n \in 1..Len(store)
        /\ store[u.n].bucket = bucket
        /\ store[u.n].object_key = object_key
        /\ store[u.n].state # "aborted"

\* what the client call of abort_multipart_upload meets: "ok", the store's
\* error response (botocore ClientError), or a failure before any response,
\* such as no connection or no credentials (botocore BotoCoreError)
AbortAnswers == {"ok", "ClientError", "BotoCoreError"}

\* client.abort_multipart_upload under `except ClientError`: a ClientError,
\* which is also the store's answer for a session it does not know, is
\* logged and not raised; any other exception leaves the function
abort_multipart_upload(store, bucket, object_key, upload_id, answer) ==
    IF answer = "BotoCoreError"
    THEN GatewayResult(OtherError("abort_multipart_upload failed"), {}, store,
                       <<"abort_multipart_upload">>)
    ELSE IF answer = "ok" /\ StoreKnows(store, bucket, object_key, upload_id)
    THEN GatewayResult(NoError, {},
                       [store EXCEPT ![(CHOOSE u \in upload_id : TRUE).n].state = "aborted"],
                       <<"abort_multipart_upload">>)
    ELSE GatewayResult(NoError, {}, store, <<"abort_multipart_upload">>)

complete_multipart_upload(store, bucket, object_key, upload_id, up) ==
    IF up /\ StoreKnows(store, bucket, object_key, upload_id)
    THEN GatewayResult(NoError,
                       {[Location |-> [bucket |-> bucket, object_key |-> object_key]]},
                       [store EXCEPT ![(CHOOSE u \in upload_id : TRUE).n].state = "completed"],
                       <<"complete_multipart_upload">>)
    ELSE GatewayResult(OtherError("complete_multipart_upload failed"), {}, store,
                       <<"complete_multipart_upload">>)

(***************************************************************************)
(* Repository (src/repositories/upload_repository.py).  `db` is the        *)
(* environment's answer, the session call that raises: "commit" (nothing   *)
(* is written), "refresh" (the read after the commit: the write stands),   *)
(* or "ok" for none.                                                       *)
(***************************************************************************)
DbAnswers == {"ok", "commit", "refresh"}

RepoResult(error, recs) == [error |-> error, records |-> recs]

\* mutant: content_id is no key: a row with a content_id already stored
\* takes the place of the stored one
create_content_record_upsert(recs, row, db) ==
    IF db = "commit"
    THEN RepoResult(OtherError("Failed to create content record"), recs)
    ELSE IF db = "refresh"
    THEN RepoResult(OtherError("Failed to create content record"),
                    (row.content_id :> row) @@ recs)
    ELSE RepoResult(NoError, (row.content_id :> row) @@ recs)

\* mutant: metadata_hash carries a unique constraint
create_content_record_uniqueHash(recs, row, db) ==
    IF \/ db = "commit"
       \/ row.content_id \in DOMAIN recs
       \/ \E id \in DOMAIN recs : recs[id].metadata_hash = row.metadata_hash
    THEN RepoResult(OtherError("Failed to create content record"), recs)
    ELSE IF db = "refresh"
    THEN RepoResult(OtherError("Failed to create content record"),
                    recs @@ (row.content_id :> row))
    ELSE RepoResult(NoError, recs @@ (row.content_id :> row))

create_content_record(recs, row, db) ==
    IF db = "commit" \/ row.content_id \in DOMAIN recs     \* content_id is the primary key
    THEN RepoResult(OtherError("Failed to create content record"), recs)   \* rollback
    ELSE IF db = "refresh"                  \* committed: the rollback undoes nothing
    THEN RepoResult(OtherError("Failed to create content record"),
                    recs @@ (row.content_id :> row))
    ELSE RepoResult(NoError, recs @@ (row.content_id :> row))

get_content_by_id(recs, content_id) ==
    IF content_id \in DOMAIN recs THEN {recs[content_id]} ELSE {}

ComponentRow(rows, content_id, component, status) ==
    [id |-> Cardinality(rows) + 1, content_id |-> content_id,
     component |-> component, status |-> status]

\* mutant: the placeholder is written with another default status
create_component_status_queued(rows, content_id, component, db) ==
    IF db = "commit"
    THEN [error |-> OtherError("Failed to create component status"), components |-> rows]
    ELSE [error |-> IF db = "refresh"
                    THEN OtherError("Failed to create component status") ELSE NoError,
          components |-> rows \cup {ComponentRow(rows, content_id, component, "queued")}]

\* status: str = "pending"
create_component_status(rows, content_id, component, db) ==
    IF db = "commit"
    THEN [error |-> OtherError("Failed to create component status"), components |-> rows]
    ELSE [error |-> IF db = "refresh"
                    THEN OtherError("Failed to create component status") ELSE NoError,
          components |-> rows \cup {ComponentRow(rows, content_id, component, "pending")}]

\* mutant: the status write also clears the finished session's id
UpdatedRow_clearsSession(row, status) == [row EXCEPT !.status = status, !.s3_upload_id = {}]

\* sets the status of the row, when there is one, and commits
UpdatedRow(row, status) == [row EXCEPT !.status = status]

\* mutant: the UPDATE has no WHERE clause
update_status_everyRow(recs, content_id, status, db) ==
    IF content_id \notin DOMAIN recs
    THEN RepoResult(NoError, recs)
    ELSE IF db = "commit"
    THEN RepoResult(OtherError("commit failed"), recs)
    ELSE RepoResult(IF db = "refresh" THEN OtherError("refresh failed") ELSE NoError,
                    [id \in DOMAIN recs |-> UpdatedRow(recs[id], status)])

\* mutant: the exception of the commit is caught and not raised
update_status_silent(recs, content_id, status, db) ==
    IF content_id \notin DOMAIN recs \/ db = "commit"
    THEN RepoResult(NoError, recs)
    ELSE RepoResult(IF db = "refresh" THEN OtherError("refresh failed") ELSE NoError,
                    [recs EXCEPT ![content_id] = UpdatedRow(recs[content_id], status)])

\* no try/except: the exception of the commit or of the refresh goes to the caller
update_status(recs, content_id, status, db) ==
    IF content_id \notin DOMAIN recs
    THEN RepoResult(NoError, recs)
    ELSE IF db = "commit"
    THEN RepoResult(OtherError("commit failed"), recs)
    ELSE RepoResult(IF db = "refresh" THEN OtherError("refresh failed") ELSE NoError,
                    [recs EXCEPT ![content_id] = UpdatedRow(recs[content_id], status)])

(***************************************************************************)
(* UploadService (src/services/upload_service.py).                         *)
(***************************************************************************)
COMPONENTS ==
    << "transcription", "entity_extraction", "sentiment_analysis",
       "visual_processing", "postprocessing", "scene_detection", "person_tracking" >>

\* what a handler step leaves for its caller: the call, the client calls the
\* gateway made during it, and the response or the exception raised
Outcome(op, req, upload_id, part_number, calls, error, response) ==
    [op |-> op, req |-> req, upload_id |-> upload_id, part_number |-> part_number,
     calls |-> calls, error |-> error, response |-> response]

\* sha256 of f"{filename}:{size}:{mime_type}", taken to be collision-free
generate_metadata_hash(filename, size, mime_type) ==
    [sha256 |-> [filename |-> filename, size |-> size, mime_type |-> mime_type]]

\* f"incoming/{timestamp}/{upload_id}/{request.filename}"
ObjectKey(timestamp, upload_id, filename) ==
    [prefix |-> "incoming", timestamp |-> timestamp, upload_id |-> upload_id,
     filename |-> filename]

\* mutant: the comparison made strict
IsMultipart_strict(file_size) == SizeGT(file_size, Bytes(100, 0))

\* is_multipart = request.file_size >= 100 * 1024 * 1024
IsMultipart(file_size) == SizeGE(file_size, Bytes(100, 0))

\* mutant: the gateway's result is stored whatever the strategy
RecordS3UploadId_always(is_multipart, presigned_result) == presigned_result

\* s3_upload_id=presigned_result if is_multipart else None (the record's column)
RecordS3UploadId(is_multipart, presigned_result) ==
    IF is_multipart THEN presigned_result ELSE {}

\* mutant: the MIME type column is written with a default, not the submitted type
ContentRecord_defaultMime(upload_id, object_key, req, is_multipart, presigned_result) ==
    [content_id        |-> upload_id,
     source_bucket     |-> S3_BUCKET,
     source_key        |-> object_key,
     original_filename |-> req.filename,
     file_size_bytes   |-> req.file_size,
     mime_type         |-> "application/octet-stream",
     metadata_hash     |-> [sha256 |-> [filename |-> req.filename, size |-> req.file_size,
                                        mime_type |-> req.content_type]],
     status            |-> "pending",
     s3_upload_id      |-> IF is_multipart THEN presigned_result ELSE {}]

\* the keyword arguments of create_content_record
ContentRecord(upload_id, object_key, req, is_multipart, presigned_result) ==
    [content_id        |-> upload_id,
     source_bucket     |-> S3_BUCKET,
     source_key        |-> object_key,
     original_filename |-> req.filename,
     file_size_bytes   |-> req.file_size,
     mime_type         |-> req.content_type,
     metadata_hash     |-> generate_metadata_hash(req.filename, req.file_size, req.content_type),
     status            |-> "pending",
     s3_upload_id      |-> RecordS3UploadId(is_multipart, presigned_result)]

\* mutant: the gateway's result is always returned as the URL
ResponsePresignedUrl_always(is_multipart, presigned_result) == presigned_result

\* presigned_url=presigned_result if not is_multipart else None
ResponsePresignedUrl(is_multipart, presigned_result) ==
    IF ~is_multipart THEN presigned_result ELSE {}

\* s3_upload_id=presigned_result if is_multipart else None
ResponseS3UploadId(is_multipart, presigned_result) ==
    IF is_multipart THEN presigned_result ELSE {}

UploadResponse(upload_id, object_key, is_multipart, presigned_result) ==
    [upload_id     |-> upload_id,
     object_key    |-> object_key,
     is_multipart  |-> is_multipart,
     presigned_url |-> ResponsePresignedUrl(is_multipart, presigned_result),
     s3_upload_id  |-> ResponseS3UploadId(is_multipart, presigned_result),
     expires_in    |-> settings.PRESIGNED_URL_EXPIRY]

\* mutant: the size is checked first, against the global ceiling
Validate_sizeFirst(req) ==
    LET t == validate_file_type(req.filename)
        z == validate_file_size(req.file_size, "")
    IN  IF z # NoError THEN z
        ELSE IF t.error # NoError THEN t.error
        ELSE validate_file_size(req.file_size, t.category)

\* step 1 of initiate_upload: the type check, then the size check
Validate(req) ==
    LET t == validate_file_type(req.filename)
    IN  IF t.error # NoError THEN t.error ELSE validate_file_size(req.file_size, t.category)

\* the rows the loop over the components has committed when it stops: all of
\* them, or those up to the one whose create_component_status raises (number
\* fault.k, on the session call fault.on)
RECURSIVE ComponentLoop(_, _, _, _)
ComponentLoop(rows, content_id, i, fault) ==
    IF i > Len(COMPONENTS)
    THEN rows
    ELSE IF fault.at = "component" /\ i = fault.k
    THEN create_component_status(rows, content_id, COMPONENTS[i], fault.on).components
    ELSE ComponentLoop(create_component_status(rows, content_id, COMPONENTS[i], "ok").components,
                       content_id, i + 1, fault)

\* mutant: the identifier is generated before the request is validated
Rejected_afterUuid(st, req, error) ==
    [st EXCEPT !.uuidCalls = @ + 1,
               !.last = Outcome("initiate_upload", {req}, 0, 0, <<>>, error, {})]

\* the state a failed validation leaves: the except branch logs and re-raises
Rejected(st, req, error) ==
    [st EXCEPT !.last = Outcome("initiate_upload", {req}, 0, 0, <<>>, error, {})]

\* mutant: when the record cannot be written, the session just opened is aborted
InitiateUpload_compensates(st, req, timestamp, fault) ==
    LET verdict == Validate(req)
        upload_id == st.uuidCalls + 1
        object_key == ObjectKey(timestamp, upload_id, req.filename)
        is_multipart == IsMultipart(req.file_size)
        gw == generate_presigned_url(st.sessions, S3_BUCKET, object_key, req.file_size,
                                     req.content_type, DEFAULT_EXPIRATION, fault.at # "gateway")
        row == ContentRecord(upload_id, object_key, req, is_multipart, gw.result)
        created == create_content_record(st.records, row,
                                         IF fault.at = "record" THEN fault.on ELSE "ok")
        rows == ComponentLoop(st.components, upload_id, 1, fault)
        undo == abort_multipart_upload(gw.sessions, S3_BUCKET, object_key,
                                       RecordS3UploadId(is_multipart, gw.result), "ok")
    IN  IF verdict # NoError
        THEN Rejected(st, req, verdict)
        ELSE IF gw.error # NoError
        THEN [st EXCEPT !.uuidCalls = upload_id,
                        !.last = Outcome("initiate_upload", {req}, upload_id, 0, gw.calls,
                                         gw.error, {})]
        ELSE IF created.error # NoError
        THEN [st EXCEPT !.uuidCalls = upload_id,
                        !.sessions = undo.sessions,
                        !.records = created.records,
                        !.last = Outcome("initiate_upload", {req}, upload_id, 0,
                                         gw.calls \o undo.calls, created.error, {})]
        ELSE IF fault.at = "component"
        THEN [st EXCEPT !.uuidCalls = upload_id,
                        !.sessions = gw.sessions,
                        !.records = created.records,
                        !.components = rows,
                        !.last = Outcome("initiate_upload", {req}, upload_id, 0, gw.calls,
                                         OtherError("Failed to create component status"), {})]
        ELSE [st EXCEPT !.uuidCalls = upload_id,
                        !.sessions = gw.sessions,
                        !.records = created.records,
                        !.components = rows,
                        !.last = Outcome("initiate_upload", {req}, upload_id, 0, gw.calls, NoError,
                                         {UploadResponse(upload_id, object_key, is_multipart,
                                                         gw.result)})]

\* initiate_upload on the state st = [records, components, sessions, uuidCalls, ...].
\* fault names the call the environment fails: "none", "gateway" (the store
\* call), "record" (create_content_record) or "component" (the
\* create_component_status of component number fault.k), and for the last two
\* the session call that raises (fault.on: "commit" or "refresh").
InitiateUpload(st, req, timestamp, fault) ==
    LET verdict == Validate(req)
        upload_id == st.uuidCalls + 1
        object_key == ObjectKey(timestamp, upload_id, req.filename)
        is_multipart == IsMultipart(req.file_size)
        gw == generate_presigned_url(st.sessions, S3_BUCKET, object_key, req.file_size,
                                     req.content_type, DEFAULT_EXPIRATION, fault.at # "gateway")
        row == ContentRecord(upload_id, object_key, req, is_multipart, gw.result)
        created == create_content_record(st.records, row,
                                         IF fault.at = "record" THEN fault.on ELSE "ok")
        rows == ComponentLoop(st.components, upload_id, 1, fault)
    IN  IF verdict # NoError
        THEN Rejected(st, req, verdict)
        ELSE IF gw.error # NoError
        THEN [st EXCEPT !.uuidCalls = upload_id,
                        !.last = Outcome("initiate_upload", {req}, upload_id, 0, gw.calls,
                                         gw.error, {})]
        ELSE IF created.error # NoError
        THEN [st EXCEPT !.uuidCalls = upload_id,
                        !.sessions = gw.sessions,
                        !.records = created.records,
                        !.last = Outcome("initiate_upload", {req}, upload_id, 0, gw.calls,
                                         created.error, {})]
        ELSE IF fault.at = "component"
        THEN [st EXCEPT !.uuidCalls = upload_id,
                        !.sessions = gw.sessions,
                        !.records = created.records,
                        !.components = rows,
                        !.last = Outcome("initiate_upload", {req}, upload_id, 0, gw.calls,
                                         OtherError("Failed to create component status"), {})]
        ELSE [st EXCEPT !.uuidCalls = upload_id,
                        !.sessions = gw.sessions,
                        !.records = created.records,
                        !.components = rows,
                        !.last = Outcome("initiate_upload", {req}, upload_id, 0, gw.calls, NoError,
                                         {UploadResponse(upload_id, object_key, is_multipart,
                                                         gw.result)})]

\* what an initiate_bulk_upload call that has ended leaves for its caller: the
\* BulkUploadResponse or the exception raised; with it, the request, the list
\* `results` as it was when the call ended and the client calls the gateway made
BulkEnded(uploads, results, calls, error, response) ==
    [uploads |-> uploads, results |-> results, calls |-> calls, error |-> error,
     response |-> response]

\* BulkUploadResponse(results=results)
BulkUploadResponse(results) == [results |-> results]

\* initiate_bulk_upload up to its loop: results = []; an empty list returns at once
InitiateBulkBegin(st, uploads) ==
    IF uploads = <<>>
    THEN [st EXCEPT !.bulk.ended = {BulkEnded(uploads, <<>>, <<>>, NoError,
                                              {BulkUploadResponse(<<>>)})},
                    !.last = Outcome("initiate_bulk_upload", {}, 0, 0, <<>>, NoError, {})]
    ELSE [st EXCEPT !.bulk.running = @ (+) SetToBag({[uploads |-> uploads, results |-> <<>>,
                                                      calls |-> <<>>]}),
                    !.last = Outcome("initiate_bulk_upload", {}, 0, 0, <<>>, NoError, {})]

\* mutant: the newest result is put first
BulkResults_prepends(results, result) == <<result>> \o results

\* results.append(result)
BulkResults(results, result) == Append(results, result)

\* mutant: the batch is transactional: when an entry fails, the records
\* written for the entries before it are taken back
InitiateBulkEntry_rollsBack(st, call, timestamp, fault) ==
    LET upload_req == call.uploads[Len(call.results) + 1]
        after == InitiateUpload(st, upload_req, timestamp, fault)
        results == BulkResults(call.results, CHOOSE r \in after.last.response : TRUE)
        calls == call.calls \o after.last.calls
        written == {call.results[i].upload_id : i \in 1..Len(call.results)}
    IN  IF after.last.error # NoError
        THEN [after EXCEPT !.records = [id \in DOMAIN after.records \ written |->
                                           after.records[id]],
                           !.bulk.running = @ (-) SetToBag({call}),
                           !.bulk.ended = {BulkEnded(call.uploads, call.results, calls,
                                                     after.last.error, {})}]
        ELSE IF Len(results) = Len(call.uploads)
        THEN [after EXCEPT !.bulk.running = @ (-) SetToBag({call}),
                           !.bulk.ended = {BulkEnded(call.uploads, results, calls, NoError,
                                                     {BulkUploadResponse(results)})}]
        ELSE [after EXCEPT !.bulk.running =
                               (@ (-) SetToBag({call}))
                                   (+) SetToBag({[call EXCEPT !.results = results,
                                                              !.calls = calls]})]

\* one turn of the loop of initiate_bulk_upload for the call `call`: the next
\* entry goes through initiate_upload; its exception ends the call, its
\* result is appended, and after the last entry the call returns
InitiateBulkEntry(st, call, timestamp, fault) ==
    LET upload_req == call.uploads[Len(call.results) + 1]
        after == InitiateUpload(st, upload_req, timestamp, fault)
        results == BulkResults(call.results, CHOOSE r \in after.last.response : TRUE)
        calls == call.calls \o after.last.calls
    IN  IF after.last.error # NoError
        THEN [after EXCEPT !.bulk.running = @ (-) SetToBag({call}),
                           !.bulk.ended = {BulkEnded(call.uploads, call.results, calls,
                                                     after.last.error, {})}]
        ELSE IF Len(results) = Len(call.uploads)
        THEN [after EXCEPT !.bulk.running = @ (-) SetToBag({call}),
                           !.bulk.ended = {BulkEnded(call.uploads, results, calls, NoError,
                                                     {BulkUploadResponse(results)})}]
        ELSE [after EXCEPT !.bulk.running =
                               (@ (-) SetToBag({call}))
                                   (+) SetToBag({[call EXCEPT !.results = results,
                                                              !.calls = calls]})]

\* mutant: only the record's existence is checked
NoActiveMultipart_recordOnly(record) == record = {}

\* mutant: a record already 'uploaded' has no active multipart upload
NoActiveMultipart_orUploaded(record) ==
    record = {} \/ \A r \in record : r.s3_upload_id = {} \/ r.status = "uploaded"

\* if not record or not record.s3_upload_id
NoActiveMultipart(record) == record = {} \/ \A r \in record : r.s3_upload_id = {}

\* mutant: issuing a part URL marks the record as being uploaded
GetMultipartPartUrl_marksUploading(st, upload_id, part_number, read, up) ==
    LET record == get_content_by_id(st.records, upload_id)
        row == CHOOSE r \in record : TRUE
        gw == generate_part_presigned_url(st.sessions, row.source_bucket, row.source_key,
                                          row.s3_upload_id, part_number, DEFAULT_EXPIRATION, up)
    IN  IF ~read
        THEN [st EXCEPT !.last = Outcome("get_multipart_part_url", {}, upload_id, part_number, <<>>,
                                         OtherError("query failed"), {})]
        ELSE IF NoActiveMultipart(record)
        THEN [st EXCEPT !.last = Outcome("get_multipart_part_url", {}, upload_id, part_number, <<>>,
                                         ValueError("No active multipart upload found", <<>>), {})]
        ELSE IF gw.error # NoError
        THEN [st EXCEPT !.last = Outcome("get_multipart_part_url", {}, upload_id, part_number,
                                         gw.calls, gw.error, {})]
        ELSE [st EXCEPT !.records[upload_id].status = "uploading",
                        !.last = Outcome("get_multipart_part_url", {}, upload_id, part_number,
                                         gw.calls, NoError,
                                         {[upload_id |-> upload_id, part_number |-> part_number,
                                           presigned_url |-> gw.result]})]

\* get_multipart_part_url: the record query (`read`: it answers), the guard,
\* then the gateway call
GetMultipartPartUrl(st, upload_id, part_number, read, up) ==
    LET record == get_content_by_id(st.records, upload_id)
        row == CHOOSE r \in record : TRUE
        gw == generate_part_presigned_url(st.sessions, row.source_bucket, row.source_key,
                                          row.s3_upload_id, part_number, DEFAULT_EXPIRATION, up)
    IN  IF ~read
        THEN [st EXCEPT !.last = Outcome("get_multipart_part_url", {}, upload_id, part_number, <<>>,
                                         OtherError("query failed"), {})]
        ELSE IF NoActiveMultipart(record)
        THEN [st EXCEPT !.last = Outcome("get_multipart_part_url", {}, upload_id, part_number, <<>>,
                                         ValueError("No active multipart upload found", <<>>), {})]
        ELSE IF gw.error # NoError
        THEN [st EXCEPT !.last = Outcome("get_multipart_part_url", {}, upload_id, part_number,
                                         gw.calls, gw.error, {})]
        ELSE [st EXCEPT !.last = Outcome("get_multipart_part_url", {}, upload_id, part_number,
                                         gw.calls, NoError,
                                         {[upload_id |-> upload_id, part_number |-> part_number,
                                           presigned_url |-> gw.result]})]

\* mutant: a completion the store refuses marks the record as failed
CompleteStoreCall_marksFailed(st, upload_id, read, up) ==
    LET record == get_content_by_id(st.records, upload_id)
        row == CHOOSE r \in record : TRUE
        gw == complete_multipart_upload(st.sessions, row.source_bucket, row.source_key,
                                        row.s3_upload_id, up)
    IN  IF ~read
        THEN [st EXCEPT !.last = Outcome("complete_multipart_upload", {}, upload_id, 0, <<>>,
                                         OtherError("query failed"), {})]
        ELSE IF record = {} \/ row.s3_upload_id = {}
        THEN [st EXCEPT !.last = Outcome("complete_multipart_upload", {}, upload_id, 0, <<>>,
                                         ValueError("No active multipart upload found", <<>>), {})]
        ELSE IF gw.error # NoError
        THEN [st EXCEPT !.records[upload_id].status = "failed",
                        !.last = Outcome("complete_multipart_upload", {}, upload_id, 0,
                                         gw.calls, gw.error, {})]
        ELSE [st EXCEPT !.sessions = gw.sessions,
                        !.inflight = @ (+) SetToBag({[upload_id |-> upload_id,
                                                      result |-> gw.result]}),
                        !.last = Outcome("complete_multipart_upload:store", {}, upload_id, 0,
                                         gw.calls, NoError, {})]

\* mutant: a completion the store refuses is tried once more
CompleteStoreCall_retries(st, upload_id, read, up) ==
    LET record == get_content_by_id(st.records, upload_id)
        row == CHOOSE r \in record : TRUE
        gw == complete_multipart_upload(st.sessions, row.source_bucket, row.source_key,
                                        row.s3_upload_id, up)
    IN  IF ~read
        THEN [st EXCEPT !.last = Outcome("complete_multipart_upload", {}, upload_id, 0, <<>>,
                                         OtherError("query failed"), {})]
        ELSE IF NoActiveMultipart(record)
        THEN [st EXCEPT !.last = Outcome("complete_multipart_upload", {}, upload_id, 0, <<>>,
                                         ValueError("No active multipart upload found", <<>>), {})]
        ELSE IF gw.error # NoError
        THEN [st EXCEPT !.last = Outcome("complete_multipart_upload", {}, upload_id, 0,
                                         gw.calls \o gw.calls, gw.error, {})]
        ELSE [st EXCEPT !.sessions = gw.sessions,
                        !.inflight = @ (+) SetToBag({[upload_id |-> upload_id,
                                                      result |-> gw.result]}),
                        !.last = Outcome("complete_multipart_upload:store", {}, upload_id, 0,
                                         gw.calls, NoError, {})]

\* complete_multipart_upload up to its store call: the record query (`read`:
\* it answers), the guard, then the gateway call; a call whose store call succeeded holds the store's response until
\* its status write
CompleteStoreCall(st, upload_id, read, up) ==
    LET record == get_content_by_id(st.records, upload_id)
        row == CHOOSE r \in record : TRUE
        gw == complete_multipart_upload(st.sessions, row.source_bucket, row.source_key,
                                        row.s3_upload_id, up)
    IN  IF ~read
        THEN [st EXCEPT !.last = Outcome("complete_multipart_upload", {}, upload_id, 0, <<>>,
                                         OtherError("query failed"), {})]
        ELSE IF NoActiveMultipart(record)
        THEN [st EXCEPT !.last = Outcome("complete_multipart_upload", {}, upload_id, 0, <<>>,
                                         ValueError("No active multipart upload found", <<>>), {})]
        ELSE IF gw.error # NoError
        THEN [st EXCEPT !.last = Outcome("complete_multipart_upload", {}, upload_id, 0,
                                         gw.calls, gw.error, {})]
        ELSE [st EXCEPT !.sessions = gw.sessions,
                        !.inflight = @ (+) SetToBag({[upload_id |-> upload_id,
                                                      result |-> gw.result]}),
                        !.last = Outcome("complete_multipart_upload:store", {}, upload_id, 0,
                                         gw.calls, NoError, {})]

\* mutants: the status the comment beside the call names, and a status of the
\* downstream pipeline
CompletedStatus_pending == "pending"
CompletedStatus_processing == "processing"

\* the status written after the store call
CompletedStatus == "uploaded"

\* the rest of complete_multipart_upload: the status write and the return
CompleteStatusWrite(st, call, db) ==
    LET result == CHOOSE r \in call.result : TRUE
        updated == update_status(st.records, call.upload_id, CompletedStatus, db)
    IN  IF updated.error # NoError
        THEN [st EXCEPT !.records = updated.records,
                        !.inflight = @ (-) SetToBag({call}),
                        !.last = Outcome("complete_multipart_upload", {}, call.upload_id, 0,
                                         <<"complete_multipart_upload">>, updated.error, {})]
        ELSE [st EXCEPT !.records = updated.records,
                        !.inflight = @ (-) SetToBag({call}),
                        !.last = Outcome("complete_multipart_upload", {}, call.upload_id, 0,
                                         <<"complete_multipart_upload">>, NoError,
                                         {[status |-> "success",
                                           detail |-> "Multipart upload completed",
                                           location |-> {result.Location}]})]

(***************************************************************************)
(* Endpoints (src/api/v1/endpoints/upload.py): the HTTP answer to what the  *)
(* service call returned or raised.                                        *)
(***************************************************************************)
HttpAnswer(status_code, body, detail) ==
    [status_code |-> status_code, body |-> body, detail |-> detail]

\* POST /bulk-upload
create_bulk_upload(ended) ==
    IF ended.error = NoError
    THEN HttpAnswer(201, ended.response, NoError)
    ELSE IF ended.error.type = "ValueError"
    THEN HttpAnswer(400, {}, ended.error)
    ELSE HttpAnswer(500, {}, ended.error)

\* mutant: every exception is answered as not found
complete_multipart_upload_endpoint_notFound(ended) ==
    IF ended.error = NoError
    THEN HttpAnswer(200, ended.response, NoError)
    ELSE HttpAnswer(404, {}, ended.error)

\* POST /{upload_id}/complete
complete_multipart_upload_endpoint(ended) ==
    IF ended.error = NoError
    THEN HttpAnswer(200, ended.response, NoError)
    ELSE IF ended.error.type = "ValueError"
    THEN HttpAnswer(404, {}, ended.error)
    ELSE HttpAnswer(500, {}, ended.error)

\* GET /{upload_id}/part/{part_number}
get_multipart_part_url(ended) ==
    IF ended.error = NoError
    THEN HttpAnswer(200, ended.response, NoError)
    ELSE IF ended.error.type = "ValueError"
    THEN HttpAnswer(404, {}, ended.error)
    ELSE HttpAnswer(500, {}, ended.error)

(***************************************************************************)
(* The routes of the v1 router (the decorators of endpoints/upload.py),    *)
(* paths as their segments after the /api/v1 prefix.                       *)
(***************************************************************************)
Routes ==
    << [method |-> "POST", path |-> <<"bulk-upload">>, endpoint |-> "create_bulk_upload"],
       [method |-> "GET", path |-> <<"{upload_id}", "part", "{part_number}">>,
        endpoint |-> "get_multipart_part_url"],
       [method |-> "POST", path |-> <<"{upload_id}", "complete">>,
        endpoint |-> "complete_multipart_upload_endpoint"] >>

PathParams == {"{upload_id}", "{part_number}"}

RouteMatches(template, path) ==
    /\ Len(template) = Len(path)
    /\ \A i \in 1..Len(path) : template[i] \in PathParams \/ template[i] = path[i]

\* the first route whose path and method match; a path that matches under
\* another method only is 405, a path no route matches is 404
Dispatch(method, path) ==
    LET onPath == {i \in 1..Len(Routes) : RouteMatches(Routes[i].path, path)}
        full   == {i \in onPath : Routes[i].method = method}
    IN  IF full # {}
        THEN [endpoint |-> Routes[CHOOSE i \in full : \A j \in full : i <= j].endpoint,
              status_code |-> 0, detail |-> ""]
        ELSE IF onPath # {}
        THEN [endpoint |-> "", status_code |-> 405, detail |-> "Method Not Allowed"]
        ELSE [endpoint |-> "", status_code |-> 404, detail |-> "Not Found"]

HTTPException(detail) == [type |-> "HTTPException", msg |-> detail, ext |-> <<>>]

\* the answer to a request that reached no endpoint
RouterAnswer(ended) ==
    IF ended.error = HTTPException("Not Found") THEN HttpAnswer(404, {}, ended.error)
    ELSE IF ended.error = HTTPException("Method Not Allowed")
    THEN HttpAnswer(405, {}, ended.error)
    ELSE HttpAnswer(0, ended.response, ended.error)

(***************************************************************************)
(* The requests the model draws from.                                      *)
(***************************************************************************)
FileNames ==
    { <<"v","1",".","m","p","4">>,      \* video
      <<"m",".","e","x","e">> }         \* unsupported

FileSizes ==
    { Pred(Bytes(100, 0)),              \* one byte below the multipart threshold
      Bytes(100, 0),                    \* the threshold, and the image ceiling
      Succ(Bytes(10 * 1024, 0)) }       \* one byte over the global ceiling

ContentTypes == {"video/mp4"}

Requests ==
    [filename : FileNames, file_size : FileSizes, content_type : ContentTypes]

Timestamps == {"20240101"}      \* datetime.now().strftime("%Y%m%d")

NoFault == [at |-> "none", k |-> 0, on |-> "ok"]

\* the create_component_status of the loop the environment may fail, on its
\* commit: three rows are committed before it (a refresh that raises at
\* component k leaves the rows a commit that raises at k + 1 leaves)
ComponentFaults == {4}

InitiateFaults ==
    {NoFault, [at |-> "gateway", k |-> 0, on |-> "ok"]}
        \cup {[at |-> "record", k |-> 0, on |-> on] : on \in DbAnswers \ {"ok"}}
        \cup {[at |-> "component", k |-> k, on |-> "commit"] : k \in ComponentFaults}

PartNumbers == {1}

\* identifiers a caller may present: 0 was never issued
UploadIds == 0..MaxUploads

\* in Spec and SpecParts the record query of get_multipart_part_url and of
\* complete_multipart_upload answers; in SpecEndpoints it may raise

(***************************************************************************)
(* The state machine.                                                      *)
(***************************************************************************)
State ==
    [records |-> records, components |-> components, sessions |-> sessions,
     uuidCalls |-> uuidCalls, inflight |-> inflight, bulk |-> bulk, last |-> last]

Becomes(st) ==
    /\ records' = st.records
    /\ components' = st.components
    /\ sessions' = st.sessions
    /\ uuidCalls' = st.uuidCalls
    /\ inflight' = st.inflight
    /\ bulk' = st.bulk
    /\ last' = st.last
    /\ UNCHANGED <<checked, settings>>

\* the state of the service and of the store when the application has started
Started ==
    /\ records = <<>>
    /\ components = {}
    /\ sessions = <<>>
    /\ uuidCalls = 0
    /\ inflight = EmptyBag
    /\ bulk = [running |-> EmptyBag, ended |-> {}]
    /\ checked = [fn |-> "none", filename |-> <<>>, file_size |-> Bytes(0, 0),
                  category |-> "", result |-> [category |-> "", error |-> NoError]]
    /\ last = Outcome("none", {}, 0, 0, <<>>, NoError, {})

\* the settings of an environment that sets none of them
Init ==
    /\ Started
    /\ settings = [PRESIGNED_URL_EXPIRY |-> PRESIGNED_URL_EXPIRY]

Initiate ==
    \E req \in Requests, timestamp \in Timestamps :
        \E fault \in IF Validate(req) = NoError THEN InitiateFaults ELSE {NoFault} :
            /\ Validate(req) = NoError => uuidCalls < MaxUploads
            /\ Becomes(InitiateUpload(State, req, timestamp, fault))

GetPartUrl ==
    \E upload_id \in UploadIds, part_number \in PartNumbers, up \in BOOLEAN :
        Becomes(GetMultipartPartUrl(State, upload_id, part_number, TRUE, up))

CompleteBegin ==
    \E upload_id \in UploadIds, up \in BOOLEAN :
        /\ BagCardinality(inflight) < MaxInflight
        /\ Becomes(CompleteStoreCall(State, upload_id, TRUE, up))

CompleteEnd ==
    \E call \in BagToSet(inflight), db \in DbAnswers :
        Becomes(CompleteStatusWrite(State, call, db))

Next ==
    \/ Initiate
    \/ GetPartUrl
    \/ CompleteBegin
    \/ CompleteEnd

Spec == Init /\ [][Next]_vars

(***************************************************************************)
(* The part-URL calls of multipart clients: any part number (the handler    *)
(* and the route declare an int and check no range), beside initiations     *)
(* in which no call of the environment fails, and completions.              *)
(***************************************************************************)
AnyPartNumbers == {-1, 0, 1, 2, 10000, 10001}

InitiateNoFault ==
    \E req \in Requests, timestamp \in Timestamps :
        /\ Validate(req) = NoError => uuidCalls < MaxUploads
        /\ Becomes(InitiateUpload(State, req, timestamp, NoFault))

GetPartUrlAny ==
    \E upload_id \in UploadIds, part_number \in AnyPartNumbers, up \in BOOLEAN :
        Becomes(GetMultipartPartUrl(State, upload_id, part_number, TRUE, up))

PartsNext ==
    \/ InitiateNoFault
    \/ GetPartUrlAny
    \/ CompleteBegin
    \/ CompleteEnd

SpecParts == Init /\ [][PartsNext]_vars

(***************************************************************************)
(* The bulk endpoint's calls: each call is a loop over its entries, one     *)
(* initiate_upload per turn, and the calls of other requests run between    *)
(* the turns.                                                              *)
(***************************************************************************)
SmallVideo ==
    [filename |-> <<"v","1",".","m","p","4">>, file_size |-> Pred(Bytes(100, 0)),
     content_type |-> "video/mp4"]
LargeVideo == [SmallVideo EXCEPT !.file_size = Bytes(100, 0)]
HugeVideo == [SmallVideo EXCEPT !.file_size = Succ(Bytes(10 * 1024, 0))]
Executable == [SmallVideo EXCEPT !.filename = <<"m",".","e","x","e">>]

\* request.uploads
BulkUploads ==
    { <<>>,
      <<SmallVideo>>,
      <<LargeVideo, SmallVideo>>,
      <<SmallVideo, LargeVideo>>,
      <<SmallVideo, Executable, LargeVideo>>,
      <<LargeVideo, HugeVideo, SmallVideo>> }

BulkBegin ==
    \E uploads \in BulkUploads :
        /\ BagCardinality(bulk.running) < MaxBulk
        /\ Becomes(InitiateBulkBegin(State, uploads))

BulkEntry ==
    \E call \in BagToSet(bulk.running), timestamp \in Timestamps :
        LET upload_req == call.uploads[Len(call.results) + 1]
        IN  \E fault \in IF Validate(upload_req) = NoError THEN InitiateFaults ELSE {NoFault} :
                /\ Validate(upload_req) = NoError => uuidCalls < MaxUploads
                /\ Becomes(InitiateBulkEntry(State, call, timestamp, fault))

BulkNext ==
    \/ BulkBegin
    \/ BulkEntry

SpecBulk == Init /\ [][BulkNext]_vars

(***************************************************************************)
(* The three routes as one client calls them, a request after the answer   *)
(* to the one before: the record query of the part-URL and completion      *)
(* handlers may raise, as may the gateway calls, the record write of an    *)
(* entry and the status write.                                             *)
(***************************************************************************)
EndpointUploads ==
    { <<LargeVideo>>, <<SmallVideo>>, <<Executable>>, <<SmallVideo, HugeVideo>> }

EndpointFaults ==
    {NoFault, [at |-> "gateway", k |-> 0, on |-> "ok"],
     [at |-> "record", k |-> 0, on |-> "commit"]}

BulkUploadRequest ==
    \E uploads \in EndpointUploads :
        /\ bulk.running = EmptyBag
        /\ Becomes(InitiateBulkBegin(State, uploads))

BulkUploadEntry ==
    \E call \in BagToSet(bulk.running), timestamp \in Timestamps :
        LET upload_req == call.uploads[Len(call.results) + 1]
        IN  \E fault \in IF Validate(upload_req) = NoError THEN EndpointFaults ELSE {NoFault} :
                /\ Validate(upload_req) = NoError => uuidCalls < MaxUploads
                /\ Becomes(InitiateBulkEntry(State, call, timestamp, fault))

PartUrlRequest ==
    \E upload_id \in UploadIds, part_number \in PartNumbers, read \in BOOLEAN, up \in BOOLEAN :
        Becomes(GetMultipartPartUrl(State, upload_id, part_number, read, up))

CompleteRequest ==
    \E upload_id \in UploadIds, read \in BOOLEAN, up \in BOOLEAN :
        /\ inflight = EmptyBag
        /\ Becomes(CompleteStoreCall(State, upload_id, read, up))

\* requests of the API's clients and tests for which the router has no endpoint
OtherRequests ==
    { [name |-> "POST /upload", method |-> "POST", path |-> <<"upload">>, body |-> {SmallVideo}],
      [name |-> "POST /upload", method |-> "POST", path |-> <<"upload">>, body |-> {Executable}],
      [name |-> "GET /bulk-upload", method |-> "GET", path |-> <<"bulk-upload">>, body |-> {}] }

OtherRequest ==
    \E r \in OtherRequests :
        LET d == Dispatch(r.method, r.path)
        IN  /\ d.endpoint = ""
            /\ Becomes([State EXCEPT !.last = Outcome(r.name, r.body, 0, 0, <<>>,
                                                      HTTPException(d.detail), {})])

EndpointsNext ==
    \/ OtherRequest
    \/ BulkUploadRequest
    \/ BulkUploadEntry
    \/ PartUrlRequest
    \/ CompleteRequest
    \/ CompleteEnd

SpecEndpoints == Init /\ [][EndpointsNext]_vars

(***************************************************************************)
(* The environment sets PRESIGNED_URL_EXPIRY (seconds): clients initiate   *)
(* uploads and ask for part URLs.                                          *)
(***************************************************************************)
ConfiguredExpiries == {900, 3600, 7200}

InitConfigured ==
    /\ Started
    /\ settings \in [PRESIGNED_URL_EXPIRY : ConfiguredExpiries]

ExpiryNext ==
    \/ InitiateNoFault
    \/ GetPartUrl

SpecExpiry == InitConfigured /\ [][ExpiryNext]_vars

(***************************************************************************)
(* abort_multipart_upload, which no handler calls: a caller of the gateway *)
(* function names a bucket, a key and a session, those of a session the    *)
(* store opened or (n = 0) of none, beside initiations and completions.    *)
(***************************************************************************)
AbortCall(st, n, answer) ==
    LET known == n \in 1..Len(st.sessions)
        gw == abort_multipart_upload(st.sessions,
                                     IF known THEN st.sessions[n].bucket ELSE S3_BUCKET,
                                     IF known THEN st.sessions[n].object_key
                                     ELSE ObjectKey("20240101", 0, <<>>),
                                     {UploadId(n)}, answer)
    IN  [st EXCEPT !.sessions = gw.sessions,
                   !.last = Outcome("abort_multipart_upload", {}, 0, n, gw.calls, gw.error, {})]

AbortSession ==
    \E n \in 0..MaxUploads, answer \in AbortAnswers :
        Becomes(AbortCall(State, n, answer))

AbortNext ==
    \/ InitiateNoFault
    \/ AbortSession
    \/ CompleteBegin
    \/ CompleteEnd

SpecAbort == Init /\ [][AbortNext]_vars

(***************************************************************************)
(* uuid.uuid4() is a random value: here the environment picks what it      *)
(* returns, a value an earlier call returned included.  The calls are      *)
(* the ones that write records: initiate_upload on its own and as the      *)
(* entries of bulk requests.                                               *)
(***************************************************************************)
Uuids == 1..MaxUploads

\* the state in which the next uuid4() returns id
NextUuid(id) == [State EXCEPT !.uuidCalls = id - 1]

IdFaults == {NoFault, [at |-> "record", k |-> 0, on |-> "refresh"]}

IdUploads == { <<SmallVideo, LargeVideo>> }

InitiateAnyId ==
    \E req \in {SmallVideo, LargeVideo, Executable}, timestamp \in Timestamps, id \in Uuids :
        \E fault \in IF Validate(req) = NoError THEN IdFaults ELSE {NoFault} :
            /\ Validate(req) = NoError => Len(sessions) < MaxUploads
            /\ Becomes(InitiateUpload(NextUuid(id), req, timestamp, fault))

BulkBeginAnyId ==
    \E uploads \in IdUploads :
        /\ bulk.running = EmptyBag
        /\ Becomes(InitiateBulkBegin(State, uploads))

BulkEntryAnyId ==
    \E call \in BagToSet(bulk.running), timestamp \in Timestamps, id \in Uuids :
        \E fault \in IdFaults :
            /\ Len(sessions) < MaxUploads
            /\ Becomes(InitiateBulkEntry(NextUuid(id), call, timestamp, fault))

IdsNext ==
    \/ InitiateAnyId
    \/ BulkBeginAnyId
    \/ BulkEntryAnyId

SpecIds == Init /\ [][IdsNext]_vars

(***************************************************************************)
(* initiate_upload calls that differ in file name, size, MIME type and     *)
(* day, with no failure of the gateway or of the database: what the        *)
(* metadata hash depends on, and whether it stands in the way of a call.   *)
(***************************************************************************)
HashFileNames == { <<"v","1",".","m","p","4">>, <<"v","2",".","m","p","4">> }

HashFileSizes == { Pred(Bytes(100, 0)), Bytes(100, 0) }

HashContentTypes == {"video/mp4", "application/octet-stream"}

HashRequests ==
    [filename : HashFileNames, file_size : HashFileSizes, content_type : HashContentTypes]

HashTimestamps == {"20240101", "20240102"}

InitiateHashed ==
    \E req \in HashRequests, timestamp \in HashTimestamps :
        /\ uuidCalls < MaxUploads
        /\ Becomes(InitiateUpload(State, req, timestamp, NoFault))

HashNext ==
    \/ InitiateHashed
    \/ GetPartUrl

SpecHash == Init /\ [][HashNext]_vars

(***************************************************************************)
(* The validators on their own, and initiate_upload on the requests they    *)
(* refuse.                                                                 *)
(***************************************************************************)
WideFileNames ==
    { <<"v","1",".","m","p","4">>, <<"V","1",".","M","P","4">>, <<"a",".","M","o","v">>,
      <<"x",".","a","v","i">>, <<"x",".","m","k","v">>,
      <<"s",".","m","p","3">>, <<"s",".","w","a","v">>, <<"s",".","m","4","a">>,
      <<"s",".","f","l","a","c">>,
      <<"i",".","j","p","g">>, <<"i",".","J","P","E","G">>, <<"i",".","p","n","g">>,
      <<"i",".","w","e","b","p">>, <<"i",".","t","i","f","f">>,
      <<"t",".","t","x","t">>, <<"t",".","m","d">>, <<"t",".","h","t","m","l">>,
      <<"t",".","j","s","o","n">>,
      <<"m",".","e","x","e">>, <<"M",".","E","X","E">>,
      <<"m","p","4">>,                          \* no extension
      <<>>,                                     \* the empty name
      <<".","m","p","4">>,                      \* a leading dot starts no suffix
      <<"v",".","m","p","4",".">>,              \* nor does a trailing dot end one
      <<"a",".","t","a","r",".","g","z">>,
      <<"a",".","m","p","4",".","e","x","e">>,
      <<"a",".","e","x","e",".","m","p","4">>,
      <<"d","/","v",".","m","p","4">>,
      <<"v",".","m","p","4","/">>,
      <<"v",".","m","p","4","/","x">>,
      <<"i",".","j","p">> }

WideFileSizes ==
    { Bytes(-1, MiBBytes - 1), Bytes(0, 0), Bytes(0, 1) }       \* -1, 0, 1
        \cup UNION { {Pred(Bytes(c, 0)), Bytes(c, 0), Succ(Bytes(c, 0))} :
                        c \in {100, 500, 2 * 1024, 10 * 1024} }

\* "" is category=None; "document" is in no table
Categories == {"video", "audio", "image", "text", "", "document"}

ValidateFileType ==
    \E filename \in WideFileNames :
        /\ checked' = [fn |-> "validate_file_type", filename |-> filename,
                        file_size |-> Bytes(0, 0), category |-> "",
                        result |-> validate_file_type(filename)]
        /\ UNCHANGED <<records, components, sessions, uuidCalls, inflight, bulk, settings, last>>

ValidateFileSize ==
    \E file_size \in WideFileSizes, category \in Categories :
        /\ checked' = [fn |-> "validate_file_size", filename |-> <<>>,
                        file_size |-> file_size, category |-> category,
                        result |-> [category |-> "",
                                    error |-> validate_file_size(file_size, category)]]
        /\ UNCHANGED <<records, components, sessions, uuidCalls, inflight, bulk, settings, last>>

\* sizes under, at and over the ceilings
SomeFileSizes ==
    { Bytes(0, 1), Bytes(100, 0), Bytes(10 * 1024, 0), Succ(Bytes(10 * 1024, 0)) }

InitiateRefused ==
    \E req \in [filename : WideFileNames, file_size : SomeFileSizes,
                 content_type : ContentTypes], timestamp \in Timestamps :
        /\ Validate(req) # NoError
        /\ Becomes(InitiateUpload(State, req, timestamp, NoFault))

ValidatorsNext ==
    \/ ValidateFileType
    \/ ValidateFileSize
    \/ InitiateRefused

SpecValidators == Init /\ [][ValidatorsNext]_vars

(***************************************************************************)
(* Properties.                                                             *)
(***************************************************************************)
InitiateSucceeded(o) == o.op = "initiate_upload" /\ o.error = NoError

\* C1: every initiate_upload that passes validation and answers, answers
\* is_multipart = TRUE exactly when file_size >= 100 * 1024 * 1024 bytes (at
\* least 100 whole MiB): TRUE at the threshold, FALSE one byte below it.
C1_MultipartIffAtLeastThreshold ==
    InitiateSucceeded(last) =>
        \A req \in last.req, resp \in last.response :
            resp.is_multipart <=> (req.file_size.mib >= 100)

\* a request of exactly 100 MiB was answered multipart, and a request of one
\* byte less left a record without a session
C1_Witness ==
    /\ InitiateSucceeded(last)
    /\ \E req \in last.req, resp \in last.response :
          req.file_size = [mib |-> 100, b |-> 0] /\ resp.is_multipart
    /\ \E id \in DOMAIN records :
          /\ records[id].file_size_bytes = [mib |-> 99, b |-> 1048575]
          /\ records[id].s3_upload_id = {}

\* C2: every successful initiate_upload response carries exactly one
\* credential: presigned_url and no s3_upload_id when is_multipart is FALSE,
\* s3_upload_id and no presigned_url when it is TRUE.
C2_ExactlyOneCredential ==
    InitiateSucceeded(last) =>
        \A resp \in last.response :
            IF resp.is_multipart
            THEN resp.s3_upload_id # {} /\ resp.presigned_url = {}
            ELSE resp.presigned_url # {} /\ resp.s3_upload_id = {}

\* a multipart response holding the store's session id, after a single-PUT upload
C2_Witness ==
    /\ InitiateSucceeded(last)
    /\ \E resp \in last.response :
          /\ resp.is_multipart
          /\ \E u \in resp.s3_upload_id : u.kind = "upload_id"
          /\ resp.presigned_url = {}
    /\ \E id \in DOMAIN records : records[id].s3_upload_id = {}

\* C3: every successful initiate_upload persists exactly one new content
\* record; it is pending, its content_id and source_key are the upload_id and
\* object_key returned, and its filename, size and MIME type are the
\* submitted ones.
C3_OneNewPendingRecord ==
    [][ InitiateSucceeded(last') =>
          \A req \in last'.req, resp \in last'.response :
              /\ DOMAIN records' = DOMAIN records \cup {resp.upload_id}
              /\ resp.upload_id \notin DOMAIN records
              /\ \A id \in DOMAIN records : records'[id] = records[id]
              /\ records'[resp.upload_id].content_id = resp.upload_id
              /\ records'[resp.upload_id].status = "pending"
              /\ records'[resp.upload_id].source_key = resp.object_key
              /\ records'[resp.upload_id].original_filename = req.filename
              /\ records'[resp.upload_id].file_size_bytes = req.file_size
              /\ records'[resp.upload_id].mime_type = req.content_type ]_vars

\* the second successful initiate_upload: its record is there beside the first
C3_Witness ==
    /\ InitiateSucceeded(last)
    /\ Cardinality(DOMAIN records) = 2
    /\ \E resp \in last.response :
          /\ resp.upload_id \in DOMAIN records
          /\ records[resp.upload_id].status = "pending"
          /\ records[resp.upload_id].source_key = resp.object_key

\* C4: in every reachable state a record has a multipart session id exactly
\* when it was created for a size of at least 100 MiB (the multipart
\* strategy), and no step sets, clears or changes the session id of a record.
C4_SessionIdFixedAtCreation ==
    /\ [](\A id \in DOMAIN records :
             (records[id].s3_upload_id # {}) <=> (records[id].file_size_bytes.mib >= 100))
    /\ [][\A id \in DOMAIN records :
             /\ id \in DOMAIN records'
             /\ records'[id].s3_upload_id = records[id].s3_upload_id]_vars

\* a part URL was just issued while a completed multipart record still holds its
\* session id and a single-PUT record still has none
C4_Witness ==
    /\ last.op = "get_multipart_part_url" /\ last.error = NoError
    /\ \E id \in DOMAIN records :
          /\ records[id].status = "uploaded"
          /\ \E u \in records[id].s3_upload_id : u.kind = "upload_id"
    /\ \E id \in DOMAIN records :
          records[id].s3_upload_id = {} /\ records[id].file_size_bytes.mib < 100

\* C5: an initiate_upload whose request fails validation (unsupported
\* extension, or size over a ceiling) raises the validator's error and has no
\* side effect: no identifier is generated, the gateway makes no call, and the
\* records, the component rows and the store are as before.
C5_RejectionHasNoSideEffect ==
    [][ \A req \in last'.req :
          (last'.op = "initiate_upload" /\ Validate(req) # NoError) =>
              /\ last'.error = Validate(req)
              /\ last'.error.type = "ValueError"
              /\ last'.calls = <<>>
              /\ last'.response = {}
              /\ uuidCalls' = uuidCalls
              /\ records' = records
              /\ components' = components
              /\ sessions' = sessions ]_vars

\* an oversized request was rejected when records, rows and a session existed
C5_Witness ==
    /\ last.op = "initiate_upload"
    /\ last.error.type = "ValueError"
    /\ last.error.msg = "File size exceeds limit for category"
    /\ DOMAIN records # {}
    /\ components # {}
    /\ Len(sessions) > 0

CompleteOps == {"complete_multipart_upload", "complete_multipart_upload:store"}

\* C6: get_multipart_part_url and complete_multipart_upload called for an
\* identifier with no record, or with a record that has no session id, raise
\* ValueError 'No active multipart upload found', make no gateway call and
\* change no record.
C6_NotFoundWithoutSession ==
    [][ (/\ last'.op \in {"get_multipart_part_url"} \cup CompleteOps
         /\ \/ last'.upload_id \notin DOMAIN records
            \/ records[last'.upload_id].s3_upload_id = {}) =>
            /\ last'.error = ValueError("No active multipart upload found", <<>>)
            /\ last'.calls = <<>>
            /\ last'.response = {}
            /\ records' = records
            /\ components' = components
            /\ sessions' = sessions
            /\ inflight' = inflight ]_vars

\* a completion was refused for a single-PUT record
C6_Witness ==
    /\ last.op = "complete_multipart_upload"
    /\ last.error = ValueError("No active multipart upload found", <<>>)
    /\ last.upload_id \in DOMAIN records
    /\ records[last.upload_id].s3_upload_id = {}

\* a complete_multipart_upload call that has ended after its store call succeeded
CompleteEndedAfterStore(o) ==
    /\ o.op = "complete_multipart_upload"
    /\ o.calls = <<"complete_multipart_upload">>
    /\ o.error # OtherError("complete_multipart_upload failed")

\* C7 as stated: whenever complete_multipart_upload ran on a record with a
\* session and the gateway completion succeeded, the record is 'uploaded' and
\* the call returned success with the store's location.
C7_CompleteAlwaysMarksUploaded ==
    CompleteEndedAfterStore(last) =>
        /\ last.error = NoError
        /\ records[last.upload_id].status = "uploaded"
        /\ \E resp \in last.response : resp.status = "success" /\ resp.location # {}

\* C7, amended: a complete_multipart_upload whose gateway completion succeeded
\* makes the record 'uploaded' when update_status commits, and returns success
\* with the location the store reported when update_status also returns; when
\* the commit raises the call raises and leaves every record as it was, and
\* when the read back after the commit raises the call raises with the record
\* 'uploaded'.
C7_CompleteMarksUploadedOnCommit ==
    [][ CompleteEndedAfterStore(last') =>
          \E call \in BagToSet(inflight) :
              /\ call.upload_id = last'.upload_id
              /\ \/ /\ last'.error = NoError
                    /\ records'[call.upload_id].status = "uploaded"
                    /\ last'.response =
                          {[status |-> "success", detail |-> "Multipart upload completed",
                            location |-> {r.Location : r \in call.result}]}
                    /\ \A r \in call.result :
                          r.Location = [bucket |-> records[call.upload_id].source_bucket,
                                        object_key |-> records[call.upload_id].source_key]
                 \/ /\ last'.error = OtherError("commit failed")
                    /\ last'.response = {}
                    /\ records' = records
                 \/ /\ last'.error = OtherError("refresh failed")
                    /\ last'.response = {}
                    /\ records'[call.upload_id].status = "uploaded" ]_vars

\* a completion has returned success and its record is uploaded
C7_Witness ==
    /\ CompleteEndedAfterStore(last)
    /\ last.error = NoError
    /\ records[last.upload_id].status = "uploaded"
    /\ \E resp \in last.response : resp.location # {}
    /\ sessions[(CHOOSE u \in records[last.upload_id].s3_upload_id : TRUE).n].state = "completed"

C9_StatusMonotonic ==
    [][ \A id \in DOMAIN records :
          /\ id \in DOMAIN records'
          /\ records[id].status = "uploaded" => records'[id].status = "uploaded"
          /\ records'[id].status # records[id].status =>
                records[id].status = "pending" /\ records'[id].status = "uploaded" ]_vars

\* a second completion of an uploaded record reached its status write
C9_Witness ==
    \E call \in BagToSet(inflight) :
        /\ call.upload_id \in DOMAIN records
        /\ records[call.upload_id].status = "uploaded"

C11_PartUrlChangesNothing ==
    [][ last'.op = "get_multipart_part_url" =>
          /\ records' = records
          /\ components' = components
          /\ sessions' = sessions
          /\ uuidCalls' = uuidCalls
          /\ inflight' = inflight ]_vars

\* a URL was issued for part 2 of a pending record while a completion of an
\* uploaded record was between its store call and its status write
C11_Witness ==
    /\ last.op = "get_multipart_part_url" /\ last.error = NoError
    /\ last.part_number = 2
    /\ records[last.upload_id].status = "pending"
    /\ \E call \in BagToSet(inflight) :
          call.upload_id # last.upload_id /\ records[call.upload_id].status = "uploaded"

\* C12: after every successful initiate_upload the component rows of the new
\* content_id are exactly seven, one for each of transcription,
\* entity_extraction, sentiment_analysis, visual_processing, postprocessing,
\* scene_detection and person_tracking, each 'pending', and none for any other
\* stage name.
C12_SevenPendingPlaceholders ==
    InitiateSucceeded(last) =>
        \A resp \in last.response :
            LET mine == {row \in components : row.content_id = resp.upload_id}
                stages == {"transcription", "entity_extraction", "sentiment_analysis",
                           "visual_processing", "postprocessing", "scene_detection",
                           "person_tracking"}
            IN  /\ Cardinality(mine) = 7
                /\ \A stage \in stages :
                      Cardinality({row \in mine : row.component = stage}) = 1
                /\ \A row \in mine : row.component \in stages /\ row.status = "pending"

\* the second initiate_upload succeeded after the first had failed on its
\* fourth placeholder: three rows of the first, seven of the second
C12_Witness ==
    /\ InitiateSucceeded(last)
    /\ \E resp \in last.response :
          /\ resp.upload_id = 2
          /\ Cardinality({row \in components : row.content_id = resp.upload_id}) = 7
    /\ Cardinality({row \in components : row.content_id = 1}) = 3

\* C13: an initiate_bulk_upload call in which every entry succeeded returns
\* one result per entry, in submission order: the result list is as long as
\* the input, result i carries the key, the strategy and the record of entry
\* i, and an empty input gives an empty list.
C13_BulkResultsInOrder ==
    \A e \in bulk.ended :
        e.error = NoError =>
            /\ e.response # {}
            /\ \A resp \in e.response :
                  /\ Len(resp.results) = Len(e.uploads)
                  /\ e.uploads = <<>> => resp.results = <<>>
                  /\ \A i \in 1..Len(e.uploads) :
                        LET result == resp.results[i]
                        IN  /\ result.object_key.filename = e.uploads[i].filename
                            /\ result.is_multipart <=> (e.uploads[i].file_size.mib >= 100)
                            /\ result.upload_id \in DOMAIN records
                            /\ records[result.upload_id].source_key = result.object_key
                            /\ records[result.upload_id].original_filename =
                                  e.uploads[i].filename
                            /\ records[result.upload_id].file_size_bytes =
                                  e.uploads[i].file_size
                  /\ \A i, j \in 1..Len(resp.results) :
                        i # j => resp.results[i].upload_id # resp.results[j].upload_id

\* a call with a multipart entry and then a single-PUT entry has returned
\* its two results
C13_Witness ==
    \E e \in bulk.ended :
        /\ e.error = NoError
        /\ Len(e.uploads) = 2
        /\ e.uploads[1].file_size.mib >= 100 /\ e.uploads[2].file_size.mib < 100
        /\ \E resp \in e.response :
              /\ Len(resp.results) = 2
              /\ resp.results[1].is_multipart /\ ~resp.results[2].is_multipart

C15_PartialSuccessReportedPerEntry ==
    \A e \in bulk.ended :
        (e.error # NoError /\ e.results # <<>>) =>
            LET answer == create_bulk_upload(e)
            IN  /\ answer.detail = e.error
                /\ \E body \in answer.body : body.results = e.results

\* an initiate_upload in which create_content_record raised after the gateway call
RecordWriteFailed(o) ==
    /\ o.op = "initiate_upload"
    /\ o.error = OtherError("Failed to create content record")

\* the store holds for the key of `o` what the gateway call of `o` left there:
\* one more open session for a multipart request, nothing more for a single PUT
StoreResourceStays(o, before, after) ==
    \A req \in o.req :
        IF req.file_size.mib >= 100
        THEN /\ o.calls = <<"create_multipart_upload">>
             /\ Len(after) = Len(before) + 1
             /\ SubSeq(after, 1, Len(before)) = before
             /\ after[Len(after)].state = "open"
             /\ after[Len(after)].object_key.upload_id = o.upload_id
        ELSE /\ o.calls = <<"generate_presigned_url:put_object">>
             /\ after = before

AtMostMiB(size, c) == size.mib < c \/ (size.mib = c /\ size.b = 0)

\* C17: for every size and each of video, audio, image and text,
\* validate_file_size passes exactly when the size is at most the smaller of
\* the category's ceiling (10 GiB, 2 GiB, 100 MiB, 500 MiB) and the global
\* ceiling of 10 GiB, a size equal to the ceiling passing; with no category it
\* passes exactly when the size is at most 10 GiB.
C17_SizePassesIffAtMostCeiling ==
    checked.fn = "validate_file_size" =>
        LET ceiling == [video |-> 10 * 1024, audio |-> 2 * 1024, image |-> 100, text |-> 500]
            global == 10 * 1024
            least(c) == IF ceiling[c] < global THEN ceiling[c] ELSE global
            passes == checked.result.error = NoError
        IN  /\ checked.category \in DOMAIN ceiling =>
                  (passes <=> AtMostMiB(checked.file_size, least(checked.category)))
            /\ checked.category = "" => (passes <=> AtMostMiB(checked.file_size, global))
            /\ ~passes => checked.result.error.type = "ValueError"

\* an image of exactly 100 MiB has passed
C17_Witness ==
    /\ checked.fn = "validate_file_size"
    /\ checked.category = "image"
    /\ checked.file_size = [mib |-> 100, b |-> 0]
    /\ checked.result.error = NoError

\* C18: validate_file_type returns the category whose extension table holds
\* the final extension of the filename (what follows the last dot of the final
\* path component, a dot that is neither its first nor its last character),
\* compared without regard to case, and raises the unsupported-type
\* ValueError for every other filename, one without extension included; no
\* extension is in two tables.
C18_TypeIsTableOfFinalExtension ==
    /\ checked.fn = "validate_file_type" =>
          LET table == [video |-> {<<".","m","p","4">>, <<".","m","o","v">>,
                                   <<".","a","v","i">>, <<".","m","k","v">>},
                        audio |-> {<<".","m","p","3">>, <<".","w","a","v">>,
                                   <<".","m","4","a">>, <<".","f","l","a","c">>},
                        image |-> {<<".","j","p","g">>, <<".","j","p","e","g">>,
                                   <<".","p","n","g">>, <<".","w","e","b","p">>,
                                   <<".","t","i","f","f">>},
                        text  |-> {<<".","t","x","t">>, <<".","m","d">>,
                                   <<".","h","t","m","l">>, <<".","j","s","o","n">>}]
              name == PathName(checked.filename)
              EndsWith(ext) ==
                  /\ Len(name) > Len(ext)
                  /\ Lower(SubSeq(name, Len(name) - Len(ext) + 1, Len(name))) = ext
              Has(c) == \E ext \in table[c] : EndsWith(ext)
          IN  /\ \A c \in DOMAIN table :
                    Has(c) <=> (checked.result.error = NoError /\ checked.result.category = c)
              /\ (\A c \in DOMAIN table : ~Has(c)) <=>
                    /\ checked.result.error.type = "ValueError"
                    /\ checked.result.error.msg = "Unsupported file type"
    /\ \A i, j \in 1..Len(SUPPORTED_TYPES) :
          i # j => SUPPORTED_TYPES[i].extensions \cap SUPPORTED_TYPES[j].extensions = {}

\* a name whose extension is written in capitals was classified as an image
C18_Witness ==
    /\ checked.fn = "validate_file_type"
    /\ checked.filename = <<"i",".","J","P","E","G">>
    /\ checked.result = [category |-> "image", error |-> NoError]

\* C19: initiate_upload of a filename whose extension is in no table raises
\* the unsupported-type ValueError naming that extension, whatever the size,
\* a size over every ceiling included: never a size error.
C19_UnsupportedTypeBeforeSize ==
    \A req \in last.req :
        (/\ last.op = "initiate_upload"
         /\ \A i \in 1..Len(SUPPORTED_TYPES) :
               Lower(PathSuffix(req.filename)) \notin SUPPORTED_TYPES[i].extensions) =>
            /\ last.error = ValueError("Unsupported file type", Lower(PathSuffix(req.filename)))
            /\ last.response = {}

\* an executable of one byte over 10 GiB was refused for its type
C19_Witness ==
    /\ last.op = "initiate_upload"
    /\ \E req \in last.req :
          /\ req.filename = <<"m",".","e","x","e">>
          /\ req.file_size = [mib |-> 10240, b |-> 1]
    /\ last.error = [type |-> "ValueError", msg |-> "Unsupported file type",
                     ext |-> <<".","e","x","e">>]

\* C20: the part-URL and completion routes answer 404 exactly when the record
\* query found no record or a record without session id, 200 exactly when
\* the handler returned its result, and 500 when the query, a gateway call or
\* the status write raised; the bulk route answers 400 when an entry was
\* refused by the validators and 500 when a gateway call or a repository
\* write raised.
C20_StatusCodes ==
    [][ /\ last'.op \in {"get_multipart_part_url", "complete_multipart_upload"} =>
              LET o == last'
                  answer == IF o.op = "get_multipart_part_url"
                            THEN get_multipart_part_url(o)
                            ELSE complete_multipart_upload_endpoint(o)
                  queryRaised == o.error = [type |-> "Exception", msg |-> "query failed",
                                            ext |-> <<>>]
                  nothingFound == \/ o.upload_id \notin DOMAIN records
                                  \/ records[o.upload_id].s3_upload_id = {}
              IN  /\ answer.status_code \in {200, 404, 500}
                  /\ answer.status_code = 404 <=> (nothingFound /\ ~queryRaised)
                  /\ answer.status_code = 200 <=> o.response # {}
                  /\ (queryRaised \/ (o.calls # <<>> /\ o.response = {})) =>
                        answer.status_code = 500
        /\ \A e \in bulk'.ended :
              LET answer == create_bulk_upload(e)
                  failing == e.uploads[Len(e.results) + 1]
                  refused == \/ failing.filename = <<"m",".","e","x","e">>
                             \/ failing.file_size.mib > 10240
                             \/ failing.file_size.mib = 10240 /\ failing.file_size.b > 0
              IN  e.error # [type |-> "", msg |-> "", ext |-> <<>>] =>
                      /\ refused => answer.status_code = 400
                      /\ ~refused => answer.status_code = 500 ]_vars

\* a completion ended in 500 on a store that refused it, after a bulk request
\* was answered 400
C20_Witness ==
    /\ last.op = "complete_multipart_upload"
    /\ last.calls = <<"complete_multipart_upload">>
    /\ last.response = {}
    /\ complete_multipart_upload_endpoint(last).status_code = 500
    /\ \E e \in bulk.ended : create_bulk_upload(e).status_code = 400

\* C21 as stated: POST /upload with valid metadata is answered 201 with
\* upload_id, object_key and the presigned URL of an initiate_upload, and with
\* invalid metadata 400 with the validation message.
C21_PostUploadInitiates ==
    \A req \in last.req :
        last.op = "POST /upload" =>
            LET answer == RouterAnswer(last)
                valid == req.filename # <<"m",".","e","x","e">>
            IN  /\ valid =>
                      /\ answer.status_code = 201
                      /\ \E body \in answer.body : body.presigned_url # {}
                /\ ~valid =>
                      /\ answer.status_code = 400
                      /\ answer.detail.msg = "Unsupported file type"

\* C22: every stored record is the only one of its content_id: an
\* initiate_upload, alone or as an entry of a bulk request, that stores a
\* record stores it under an identifier no stored record has, and leaves
\* every stored record as it is, whatever uuid4() returns; no record is
\* ever removed.
C22_ContentIdUnique ==
    /\ [](\A id \in DOMAIN records : records[id].content_id = id)
    /\ [][ /\ DOMAIN records \subseteq DOMAIN records'
           /\ last'.op = "initiate_upload" =>
                 /\ \A id \in DOMAIN records : records'[id] = records[id]
                 /\ DOMAIN records' \ DOMAIN records \subseteq {last'.upload_id}
                 /\ \A id \in DOMAIN records' \ DOMAIN records :
                       \A req \in last'.req :
                           /\ records'[id].original_filename = req.filename
                           /\ records'[id].file_size_bytes = req.file_size ]_vars

\* uuid4() returned the identifier of a stored record: the second entry of a
\* bulk request failed on its record write, and the stored record is the one
\* of another request
C22_Witness ==
    /\ last.op = "initiate_upload"
    /\ last.error = [type |-> "Exception", msg |-> "Failed to create content record",
                     ext |-> <<>>]
    /\ last.upload_id \in DOMAIN records
    /\ \A req \in last.req : records[last.upload_id].file_size_bytes # req.file_size
    /\ \E e \in bulk.ended : Len(e.results) = 1 /\ e.error = last.error

\* C23 as stated: abort_multipart_upload raises nothing, whatever failure its
\* store call meets, and changes no record.
C23_AbortNeverRaises ==
    [][ last'.op = "abort_multipart_upload" =>
          /\ last'.error = [type |-> "", msg |-> "", ext |-> <<>>]
          /\ records' = records ]_vars

\* a step in which a complete_multipart_upload call reached the store
StoreCompletionInvoked(o, before, after) ==
    /\ o.op \in CompleteOps
    /\ o.calls = <<"complete_multipart_upload">>
    /\ o.op = "complete_multipart_upload:store" \/ after = before

\* C24 as stated: the store's completion is invoked at most once for a
\* session: a complete call reaches the store only when no other call
\* for the same record is past its store call and the store has not
\* completed the record's session already.
C24_StoreCompletionAtMostOnce ==
    [][ StoreCompletionInvoked(last', inflight, inflight') =>
          /\ \A call \in BagToSet(inflight) : call.upload_id # last'.upload_id
          /\ \A u \in records[last'.upload_id].s3_upload_id :
                sessions[u.n].state # "completed" ]_vars

\* C25 as stated: the expires_in of a successful initiate_upload is the
\* expiry the single-PUT URL it returns was issued with, and a part URL is
\* issued with the configured PRESIGNED_URL_EXPIRY.
C25_ExpiryIsTheConfiguredOne ==
    /\ (last.op = "initiate_upload" /\ last.error = [type |-> "", msg |-> "", ext |-> <<>>]) =>
          \A r \in last.response :
              /\ r.expires_in = settings.PRESIGNED_URL_EXPIRY
              /\ \A url \in r.presigned_url : url.expires_in = r.expires_in
    /\ last.op = "get_multipart_part_url" =>
          \A r \in last.response :
              \A url \in r.presigned_url : url.expires_in = settings.PRESIGNED_URL_EXPIRY

\* C26 as stated: get_multipart_part_url with a part number outside 1..10000
\* fails and returns no URL.
C26_PartNumberInRange ==
    (last.op = "get_multipart_part_url" /\ last.part_number \notin 1..10000) =>
        /\ last.error # [type |-> "", msg |-> "", ext |-> <<>>]
        /\ last.response = {}

\* C27: when the store call of a complete_multipart_upload raises, the call
\* raises that error and returns nothing, it has made exactly one completion
\* call to the store, and every record is as before: a pending record is
\* still pending; no status write follows.
C27_FailedCompletionPropagates ==
    [][ (/\ last'.op = "complete_multipart_upload"
         /\ last'.error.msg = "complete_multipart_upload failed") =>
            /\ last'.error.type = "Exception"
            /\ last'.response = {}
            /\ last'.calls = <<"complete_multipart_upload">>
            /\ records' = records
            /\ components' = components
            /\ sessions' = sessions
            /\ inflight' = inflight
            /\ records[last'.upload_id].status = "pending" =>
                  records'[last'.upload_id].status = "pending" ]_vars

\* the store refused the completion of a pending record
C27_Witness ==
    /\ last.op = "complete_multipart_upload"
    /\ last.error.msg = "complete_multipart_upload failed"
    /\ records[last.upload_id].status = "pending"
    /\ inflight = EmptyBag

\* C28 as stated: every stored record has all seven placeholder rows, also
\* after an initiate_upload that failed in a placeholder write.
C28_RecordHasAllPlaceholders ==
    \A id \in DOMAIN records :
        Cardinality({r \in components : r.content_id = id}) = 7

\* C29: the service and the gateway take the same branch: a successful
\* initiate_upload says is_multipart exactly when the gateway's one call was
\* create_multipart_upload, the presigned_url it returns is a URL and never a
\* session id, and the session id of every stored record is one the store
\* issued and never a URL.
C29_StrategyAndGatewayAgree ==
    /\ (last.op = "initiate_upload" /\ last.error = [type |-> "", msg |-> "", ext |-> <<>>]) =>
          \A r \in last.response :
              /\ r.is_multipart <=> last.calls = <<"create_multipart_upload">>
              /\ ~r.is_multipart <=> last.calls = <<"generate_presigned_url:put_object">>
              /\ \A url \in r.presigned_url : url.kind = "url"
              /\ \A u \in r.s3_upload_id : u.kind = "upload_id" /\ u.n \in 1..Len(sessions)
    /\ \A id \in DOMAIN records :
          \A u \in records[id].s3_upload_id :
              /\ u.kind = "upload_id"
              /\ u.n \in 1..Len(sessions)
              /\ sessions[u.n].object_key = records[id].source_key

\* a file of exactly 100 MiB was initiated: the gateway opened a session, and
\* its id is in the record
C29_Witness ==
    /\ last.op = "initiate_upload" /\ last.calls = <<"create_multipart_upload">>
    /\ last.error = [type |-> "", msg |-> "", ext |-> <<>>]
    /\ last.upload_id \in DOMAIN records
    /\ records[last.upload_id].file_size_bytes = [mib |-> 100, b |-> 0]
    /\ \E u \in records[last.upload_id].s3_upload_id : sessions[u.n].state = "open"

\* C30: a record whose status is 'uploaded' has a session id; a record
\* without one, a single-PUT record, is 'pending' in every reachable state.
C30_UploadedOnlyMultipart ==
    \A id \in DOMAIN records :
        /\ records[id].status = "uploaded" => records[id].s3_upload_id # {}
        /\ records[id].s3_upload_id = {} => records[id].status = "pending"

\* a completion was refused for a single-PUT record, which is pending, after
\* a multipart record was marked uploaded
C30_Witness ==
    /\ last.op = "complete_multipart_upload" /\ last.error.type = "ValueError"
    /\ last.upload_id \in DOMAIN records
    /\ records[last.upload_id].s3_upload_id = {}
    /\ records[last.upload_id].status = "pending"
    /\ \E id \in DOMAIN records : records[id].status = "uploaded"

\* the store has completed the multipart session of record `id`, no
\* complete_multipart_upload call on it is between its store call and its
\* status write, and the record is not 'uploaded'
CompletedNotUploaded(id, recs, store, calls) ==
    /\ id \in DOMAIN recs
    /\ \E u \in recs[id].s3_upload_id : store[u.n].state = "completed"
    /\ \A call \in BagToSet(calls) : call.upload_id # id
    /\ recs[id].status # "uploaded"

C32_GuardIgnoresStatus ==
    [][ last'.op \in {"get_multipart_part_url"} \cup CompleteOps =>
          LET id == last'.upload_id
              refused == last'.error = ValueError("No active multipart upload found", <<>>)
              held == id \in DOMAIN records /\ records[id].s3_upload_id # {}
          IN  /\ refused <=> ~held
              /\ held =>
                    /\ last'.op = "get_multipart_part_url" =>
                          /\ last'.calls = <<"generate_presigned_url:upload_part">>
                          /\ last'.error = NoError =>
                                \E r \in last'.response :
                                    \A url \in r.presigned_url :
                                        url.upload_id = records[id].s3_upload_id
                    /\ last'.op \in CompleteOps =>
                          last'.calls = <<"complete_multipart_upload">> ]_vars

\* a completion was sent to the store, and accepted by it, for a record
\* that was 'uploaded' already
C32_Witness ==
    /\ last.op = "complete_multipart_upload:store"
    /\ last.calls = <<"complete_multipart_upload">>
    /\ last.upload_id \in DOMAIN records
    /\ records[last.upload_id].status = "uploaded"

\* two records made from the same file name, size and MIME type
SameMetadata(a, b) ==
    /\ a.original_filename = b.original_filename
    /\ a.file_size_bytes = b.file_size_bytes
    /\ a.mime_type = b.mime_type

\* C33: the metadata hash of a record is determined by its file name, size
\* and MIME type alone, and it never refuses an upload: an initiate_upload
\* of a valid request succeeds whatever records exist, and its new record
\* has another content_id and another object key than every earlier record,
\* and the same hash as every earlier record of the same file name, size and
\* MIME type, whatever the day and the identifier.
C33_FingerprintNeverBlocks ==
    [][ last'.op = "initiate_upload" =>
          \A req \in last'.req :
              LET id == last'.upload_id
              IN  /\ last'.error = NoError
                  /\ id \notin DOMAIN records
                  /\ DOMAIN records' = DOMAIN records \cup {id}
                  /\ records'[id].original_filename = req.filename
                  /\ records'[id].file_size_bytes = req.file_size
                  /\ records'[id].mime_type = req.content_type
                  /\ \A other \in DOMAIN records :
                        /\ records'[other] = records[other]
                        /\ records[other].content_id # records'[id].content_id
                        /\ records[other].source_key # records'[id].source_key
                        /\ SameMetadata(records[other], records'[id]) =>
                              records[other].metadata_hash = records'[id].metadata_hash ]_vars

\* a second initiate_upload with the file name, size and MIME type of an
\* earlier one has succeeded: two records, equal hashes, different keys
C33_Witness ==
    /\ last.op = "initiate_upload"
    /\ last.error = NoError
    /\ \E other \in DOMAIN records :
          /\ other # last.upload_id
          /\ SameMetadata(records[other], records[last.upload_id])
          /\ records[other].metadata_hash = records[last.upload_id].metadata_hash
          /\ records[other].source_key # records[last.upload_id].source_key
          /\ records[other].source_key.timestamp = records[last.upload_id].source_key.timestamp

\* C34: initiate_upload calls the gateway before it writes anything and
\* writes the record before its placeholders: after a call whose gateway call
\* failed there is no record and no placeholder of its identifier, every
\* placeholder belongs to a record, every record of a file at or above the
\* threshold holds a session id, every session id held by a record names a
\* session the store opened for that record's bucket and object key, and no
\* two records hold the same session id.
C34_RecordHoldsOwnSession ==
    /\ \A id \in DOMAIN records :
          /\ IsMultipart(records[id].file_size_bytes) => records[id].s3_upload_id # {}
          /\ \A u \in records[id].s3_upload_id :
                /\ u.kind = "upload_id"
                /\ u.n \in 1..Len(sessions)
                /\ sessions[u.n].bucket = records[id].source_bucket
                /\ sessions[u.n].object_key = records[id].source_key
          /\ \A other \in DOMAIN records \ {id} :
                records[other].s3_upload_id \cap records[id].s3_upload_id = {}
    /\ \A row \in components : row.content_id \in DOMAIN records
    /\ ( /\ last.op = "initiate_upload"
         /\ last.error \in {OtherError("create_multipart_upload failed"),
                            OtherError("generate_presigned_url failed")} )
       => /\ last.upload_id \notin DOMAIN records
          /\ \A row \in components : row.content_id # last.upload_id

\* two multipart records exist, each with the session the store opened for
\* its own key, after an initiate_upload that stopped in its placeholder loop
C34_Witness ==
    /\ last.op = "initiate_upload"
    /\ last.error = OtherError("Failed to create component status")
    /\ \E a \in DOMAIN records, b \in DOMAIN records :
          /\ a # b
          /\ records[a].s3_upload_id # {}
          /\ records[b].s3_upload_id # {}
          /\ records[a].s3_upload_id # records[b].s3_upload_id
          /\ \A u \in records[b].s3_upload_id :
                sessions[u.n].object_key = records[b].source_key
    /\ \E row \in components : row.content_id = last.upload_id
    /\ Cardinality({row \in components : row.content_id = last.upload_id}) < Len(COMPONENTS)


====
